---------------------------- MODULE Spec2Model ----------------------------
(***************************************************************************)
(* The actor system model of stateright (src/src/actor.rs and              *)
(* src/src/actor/system.rs): SystemModel lifts the actors of a System into *)
(* one transition system that an explorer drives through init_states,      *)
(* actions and next_state.                                                 *)
(*                                                                         *)
(* Ids are the naturals 0, 1, ...; Id(i) is the actor at index i.  A Rust  *)
(* Vec is a sequence, so index i of the code is position i + 1 here.  An   *)
(* Option is a set with at most one element: {} is None, {x} is Some(x).   *)
(***************************************************************************)
EXTENDS Naturals, Sequences, FiniteSets

\* Largest number of actors of a generic system.
MaxActors == 2

\* Largest number of commands a generic actor emits in one transition.
MaxOut == 2
MaxTimestamp == 4
MaxOpCount == 4

\* Message values and actor state values of a generic actor (opaque to the model).
Msgs == {"m"}
ActorStates == {"s0", "s1"}

\* The unit value `()` of the test actors' State and Msg types.
Unit == "unit"

VARIABLES
    system,               \* SystemModel.system: the System the model was built from
    actors,               \* SystemModel.actors: the kind of each actor
    init_network,         \* SystemModel.init_network
    lossy_network,        \* SystemModel.lossy_network = LossyNetwork::Yes
    duplicating_network,  \* SystemModel.duplicating_network = DuplicatingNetwork::Yes
    pc,                   \* where the explorer is: "model", "explore", "returned", "panicked"
    actor_states,         \* SystemState.actor_states of the snapshot being expanded
    network,              \* SystemState.network
    is_timer_set,         \* SystemState.is_timer_set
    history,              \* SystemState.history
    call                  \* the last init_states / next_state call and what it returned

model_vars == <<system, actors, init_network, lossy_network, duplicating_network>>
state_vars == <<actor_states, network, is_timer_set, history>>
vars == <<system, actors, init_network, lossy_network, duplicating_network, pc,
          actor_states, network, is_timer_set, history, call>>

-----------------------------------------------------------------------------
(* Commands, the output buffer and the copy-on-write state handle.          *)

Send(dst, msg) == [type |-> "Send", dst |-> dst, msg |-> msg]
SetTimer == [type |-> "SetTimer"]
CancelTimer == [type |-> "CancelTimer"]

Envelope(src, dst, msg) == [src |-> src, dst |-> dst, msg |-> msg]

\* PingPongMsg::Ping(n) and PingPongMsg::Pong(n).
Ping(n) == [kind |-> "Ping", n |-> n]
Pong(n) == [kind |-> "Pong", n |-> n]

Borrowed(value) == [owned |-> FALSE, value |-> value]
Owned(value) == [owned |-> TRUE, value |-> value]

\* Out::broadcast: one send per recipient, in the order of the recipients.
RECURSIVE broadcast(_, _, _)
broadcast(out, recipients, msg) ==
    IF recipients = <<>> THEN out
    ELSE broadcast(Append(out, Send(Head(recipients), msg)), Tail(recipients), msg)

\* Mutant: the borrowed test is inverted.
is_no_op_when_owned(state, out) == state.owned /\ Len(out) = 0

is_no_op(state, out) == ~state.owned /\ Len(out) = 0

-----------------------------------------------------------------------------
(* The actors.  "Any" is an arbitrary implementation of the Actor trait: a *)
(* handler may return any state and any commands.  "TimerActor" is the     *)
(* TestActor of the test resets_timer.                                     *)

\* The ids a generic actor of a system of n actors sends to: n is no actor's id.
Commands(n) ==
    {SetTimer, CancelTimer} \cup {Send(dst, msg) : dst \in 0 .. n, msg \in Msgs}

RECURSIVE OutsOfLen(_, _)
OutsOfLen(n, len) ==
    IF len = 0 THEN {<<>>}
    ELSE {Append(out, c) : out \in OutsOfLen(n, len - 1), c \in Commands(n)}

OutsByCount == [n \in 0 .. MaxActors |-> UNION {OutsOfLen(n, len) : len \in 0 .. MaxOut}]

Outs == OutsByCount[Len(actors)]

Cows(state) == {Borrowed(state)} \cup {Owned(s) : s \in ActorStates}

\* PingPongActor { serve_to }: the actor with serve_to = Some(1) is "Pinger",
\* the one with serve_to = None is "Ponger"; the state is the PingPongCount.
PingPongActors == {"Pinger", "Ponger"}

ping_pong_on_start(actor) ==
    [state |-> 0, out |-> IF actor = "Pinger" THEN <<Send(1, Ping(0))>> ELSE <<>>]

\* A Pong(n) or Ping(n) that matches the count is answered (with Ping(n + 1)
\* or Pong(n)) and counted; any other message is ignored.
ping_pong_on_msg(state, src, msg) ==
    IF msg.n # state THEN [state |-> Borrowed(state), out |-> <<>>]
    ELSE IF msg.kind = "Pong"
    THEN [state |-> Owned(state + 1), out |-> <<Send(src, Ping(msg.n + 1))>>]
    ELSE [state |-> Owned(state + 1), out |-> <<Send(src, Pong(msg.n))>>]

\* LogicalClockActor { bootstrap_to_id }, Timestamp(u32) and MsgWithTimestamp(u32)
\* of the example: the actor that bootstraps sends to actor 0.
LogicalClockActors == {"LogicalClockActor", "BootstrappingLogicalClockActor"}

bootstrap_to_id(actor) == IF actor = "BootstrappingLogicalClockActor" THEN {0} ELSE {}

logical_clock_on_start(actor) ==
    IF bootstrap_to_id(actor) # {}
    THEN [state |-> 1, out |-> <<Send(CHOOSE peer_id \in bootstrap_to_id(actor) : TRUE, 1)>>]
    ELSE [state |-> 0, out |-> <<>>]

\* Mutant: the actor takes over the timestamp without advancing it.
logical_clock_on_msg_not_advancing(state, src, timestamp) ==
    IF timestamp > state
    THEN [state |-> Owned(timestamp), out |-> <<Send(src, timestamp)>>]
    ELSE [state |-> Borrowed(state), out |-> <<>>]

logical_clock_on_msg(state, src, timestamp) ==
    IF timestamp > state
    THEN [state |-> Owned(timestamp + 1), out |-> <<Send(src, timestamp + 1)>>]
    ELSE [state |-> Borrowed(state), out |-> <<>>]

-----------------------------------------------------------------------------
(* The register harness.  A TestValue is a char, written as its code; a    *)
(* message is a record whose kind is the variant of RegisterMsg.           *)

Internal == [kind |-> "Internal"]
Put(request_id, value) == [kind |-> "Put", request_id |-> request_id, value |-> value]
Get(request_id) == [kind |-> "Get", request_id |-> request_id]
PutOk(request_id) == [kind |-> "PutOk", request_id |-> request_id]
GetOk(request_id, value) == [kind |-> "GetOk", request_id |-> request_id, value |-> value]

DefaultValue == 0
CodeOfA == 65
CodeOfZ == 90

\* n as u8.
AsU8(n) == n % 256

\* RegisterActor::Server(ServerActor), for the two server actors wrapped here.
RegisterServers == {"SingleCopyServer", "AnyServer"}

\* RegisterActor: Client { server_count } or Server(ServerActor).
RegisterActors == {"Client"} \cup RegisterServers

\* servers.len(), which RegisterTestSystem::actors gives every client.
server_count == Cardinality({i \in 1 .. Len(actors) : actors[i] \in RegisterServers})

\* RegisterActorState.
ClientState(awaiting, op_count) ==
    [variant |-> "Client", awaiting |-> awaiting, op_count |-> op_count]
ServerState(server_state) == [variant |-> "Server", state |-> server_state]

\* The single-copy register: it stores the value of a Put and answers PutOk,
\* and answers a Get with the value it stores.
single_copy_on_start == [state |-> DefaultValue, out |-> <<>>]

single_copy_on_msg(state, src, msg) ==
    IF msg.kind = "Put"
    THEN [state |-> Owned(msg.value), out |-> <<Send(src, PutOk(msg.request_id))>>]
    ELSE IF msg.kind = "Get"
    THEN [state |-> Borrowed(state), out |-> <<Send(src, GetOk(msg.request_id, state))>>]
    ELSE [state |-> Borrowed(state), out |-> <<>>]

\* An arbitrary server: any state, and one of a few command sequences.  It
\* may start with a Get of its own, and answers a message with PutOk or GetOk
\* of the request id the message carries.
AnyServerStarts(id) == {<<>>, <<SetTimer>>, <<Send(id, Get(0))>>}

AnyServerOuts(id, src, msg) ==
    LET request_id == IF msg.kind = "Internal" THEN 0 ELSE msg.request_id
    IN {<<>>,
        <<Send(src, PutOk(request_id))>>,
        <<Send(src, GetOk(request_id, DefaultValue))>>,
        <<SetTimer, Send(src, PutOk(request_id))>>}

server_on_start(server_actor, id) ==
    IF server_actor = "SingleCopyServer" THEN {single_copy_on_start}
    ELSE {[state |-> s, out |-> out] : s \in ActorStates, out \in AnyServerStarts(id)}

server_on_msg(server_actor, id, state, src, msg) ==
    IF server_actor = "SingleCopyServer" THEN {single_copy_on_msg(state, src, msg)}
    ELSE {[state |-> cow, out |-> out] : cow \in Cows(state), out \in AnyServerOuts(id, src, msg)}

register_on_start(actor, id) ==
    IF actor = "Client"
    THEN LET index == id
             unique_request_id == 1 * index
             value == CodeOfA + AsU8(index - server_count)
         IN {[state |-> ClientState({unique_request_id}, 1),
              out |-> <<Send((index + 0) % server_count, Put(unique_request_id, value))>>]}
    ELSE {[state |-> ServerState(r.state), out |-> r.out] : r \in server_on_start(actor, id)}

\* Mutant: every client puts twice.
max_put_count_two(index) == 2

max_put_count(index) == IF index = server_count THEN 2 ELSE 1

\* Mutant: every request goes to the server the first one went to.
request_dst_fixed(index, op_count) == index % server_count

request_dst(index, op_count) == (index + op_count) % server_count

\* Mutant: a client answers a reply whatever request id it carries.
matches_awaiting_any(state, msg, kind) == msg.kind = kind

\* The guard of the arms PutOk and GetOk: request_id == awaiting.
matches_awaiting(state, msg, kind) ==
    msg.kind = kind /\ state.awaiting = {msg.request_id}

register_client_on_msg(id, state, src, msg) ==
    IF state.awaiting = {} THEN [state |-> Borrowed(state), out |-> <<>>]
    ELSE IF matches_awaiting(state, msg, "PutOk")
    THEN LET index == id
             unique_request_id == (state.op_count + 1) * index
         IN [state |-> Owned(ClientState({unique_request_id}, state.op_count + 1)),
             out |-> IF state.op_count < max_put_count(index)
                     THEN <<Send(request_dst(index, state.op_count),
                                 Put(unique_request_id,
                                     CodeOfZ - AsU8(index - server_count)))>>
                     ELSE <<Send(request_dst(index, state.op_count),
                                 Get(unique_request_id))>>]
    ELSE IF matches_awaiting(state, msg, "GetOk")
    THEN [state |-> Owned(ClientState({}, state.op_count + 1)), out |-> <<>>]
    ELSE [state |-> Borrowed(state), out |-> <<>>]

\* Mutant: the composite state is always replaced.
wrap_server_state_always(state, server_state) == Owned(ServerState(server_state.value))

\* if let Cow::Owned(server_state) = server_state { *state = Cow::Owned(Server(..)) }
wrap_server_state(state, server_state) ==
    IF server_state.owned THEN Owned(ServerState(server_state.value)) ELSE Borrowed(state)

register_on_msg(actor, id, state, src, msg) ==
    IF actor = "Client" /\ state.variant = "Client"
    THEN {register_client_on_msg(id, state, src, msg)}
    ELSE IF actor \in RegisterServers /\ state.variant = "Server"
    THEN {[state |-> wrap_server_state(state, r.state), out |-> r.out] :
            r \in server_on_msg(actor, id, state.state, src, msg)}
    ELSE {[state |-> Borrowed(state), out |-> <<>>]}

\* The actors whose on_timeout is the default of the trait.
DefaultTimeoutActors ==
    {"TimerActor"} \cup PingPongActors \cup LogicalClockActors \cup RegisterActors

on_start(actor, id) ==
    IF actor = "TimerActor"
    THEN {[state |-> Unit, out |-> <<SetTimer>>]}
    ELSE IF actor \in PingPongActors THEN {ping_pong_on_start(actor)}
    ELSE IF actor \in LogicalClockActors THEN {logical_clock_on_start(actor)}
    ELSE IF actor \in RegisterActors THEN register_on_start(actor, id)
    ELSE {[state |-> s, out |-> out] : s \in ActorStates, out \in Outs}

on_msg(actor, id, state, src, msg) ==
    IF actor = "TimerActor"
    THEN {[state |-> Borrowed(state), out |-> <<>>]}
    ELSE IF actor \in PingPongActors THEN {ping_pong_on_msg(state, src, msg)}
    ELSE IF actor \in LogicalClockActors THEN {logical_clock_on_msg(state, src, msg)}
    ELSE IF actor \in RegisterActors THEN register_on_msg(actor, id, state, src, msg)
    ELSE {[state |-> cow, out |-> out] : cow \in Cows(state), out \in Outs}

\* Mutant: the default on_timeout sets the timer again.
on_timeout_rearming(actor, id, state) ==
    IF actor \in DefaultTimeoutActors
    THEN {[state |-> Borrowed(state), out |-> <<SetTimer>>]}
    ELSE {[state |-> cow, out |-> out] : cow \in Cows(state), out \in Outs}

on_timeout(actor, id, state) ==
    IF actor \in DefaultTimeoutActors
    THEN {[state |-> Borrowed(state), out |-> <<>>]}
    ELSE {[state |-> cow, out |-> out] : cow \in Cows(state), out \in Outs}

-----------------------------------------------------------------------------
(* The System: its history and hooks, and its boundary.  The TestSystems   *)
(* keep the trait's defaults.  A PingPongSystem counts the messages in and *)
(* out when it maintains a history.  A LogSystem records every message in  *)
(* and out, in order, and fences the state space by the length of the log. *)

\* Largest number of records a LogSystem lets the history grow to.
MaxHistory == 4

\* History::default().
\* LinearizabilityTester: the invocations and returns in the order recorded,
\* and whether each return answered an invocation in flight and each
\* invocation came from a thread with none in flight.
LinearizabilityTester(is_valid_history, events) ==
    [is_valid_history |-> is_valid_history, events |-> events]

Invoke(thread_id, op, value) ==
    [type |-> "invoke", thread_id |-> thread_id, op |-> op, value |-> value]
Return(thread_id, ret, value) ==
    [type |-> "return", thread_id |-> thread_id, op |-> ret, value |-> value]

\* The thread has an operation in flight: its last event is an invocation.
InFlight(h, thread_id) ==
    \E i \in 1 .. Len(h.events) :
        /\ h.events[i].thread_id = thread_id
        /\ h.events[i].type = "invoke"
        /\ \A j \in i + 1 .. Len(h.events) : h.events[j].thread_id # thread_id

on_invoke(h, thread_id, op, value) ==
    IF ~h.is_valid_history THEN h
    ELSE IF InFlight(h, thread_id) THEN LinearizabilityTester(FALSE, h.events)
    ELSE LinearizabilityTester(TRUE, Append(h.events, Invoke(thread_id, op, value)))

on_return(h, thread_id, ret, value) ==
    IF ~h.is_valid_history THEN h
    ELSE IF ~InFlight(h, thread_id) THEN LinearizabilityTester(FALSE, h.events)
    ELSE LinearizabilityTester(TRUE, Append(h.events, Return(thread_id, ret, value)))

register_record_msg_out(h, src, dst, msg) ==
    IF msg.kind = "Get" THEN {on_invoke(h, src, "Read", DefaultValue)}
    ELSE IF msg.kind = "Put" THEN {on_invoke(h, src, "Write", msg.value)}
    ELSE {}

register_record_msg_in(h, src, dst, msg) ==
    IF msg.kind = "GetOk" THEN {on_return(h, dst, "ReadOk", msg.value)}
    ELSE IF msg.kind = "PutOk" THEN {on_return(h, dst, "WriteOk", DefaultValue)}
    ELSE {}

DefaultHistory ==
    IF system.kind = "PingPongSystem" THEN <<0, 0>>
    ELSE IF system.kind = "RegisterSystem" THEN LinearizabilityTester(TRUE, <<>>)
    ELSE <<>>

record_msg_in(h, src, dst, msg) ==
    IF system.kind = "RegisterSystem" THEN register_record_msg_in(h, src, dst, msg)
    ELSE IF system.kind = "LogSystem" THEN {Append(h, <<"in", src, dst, msg>>)}
    ELSE IF system.kind = "PingPongSystem" /\ system.maintains_history
    THEN {<<h[1] + 1, h[2]>>}
    ELSE {}

record_msg_out(h, src, dst, msg) ==
    IF system.kind = "RegisterSystem" THEN register_record_msg_out(h, src, dst, msg)
    ELSE IF system.kind = "LogSystem" THEN {Append(h, <<"out", src, dst, msg>>)}
    ELSE IF system.kind = "PingPongSystem" /\ system.maintains_history
    THEN {<<h[1], h[2] + 1>>}
    ELSE {}

within_boundary(state) ==
    IF system.kind = "PingPongSystem"
    THEN \A i \in 1 .. Len(state.actor_states) : state.actor_states[i] <= system.max_nat
    ELSE IF system.kind = "LogSystem" THEN Len(state.history) <= MaxHistory
    ELSE IF system.kind = "RegisterSystem"
    THEN \A i \in 1 .. Len(state.actor_states) :
            state.actor_states[i].variant = "Client" =>
                state.actor_states[i].op_count <= MaxOpCount
    ELSE TRUE

-----------------------------------------------------------------------------
(* SystemState and process_commands.  A snapshot is a record of the four   *)
(* fields.  Processing returns [panic, state]: panic is TRUE when an index *)
(* expression of the code is out of bounds, which aborts the call.         *)

SystemState(as, nw, ts, h) ==
    [actor_states |-> as, network |-> nw, is_timer_set |-> ts, history |-> h]

Snapshot == SystemState(actor_states, network, is_timer_set, history)

\* Mutant: the vector is grown by one slot too many.
RECURSIVE resize_one_more(_, _)
resize_one_more(v, n) == IF Len(v) > n THEN v ELSE resize_one_more(Append(v, FALSE), n)

\* Vec::resize(n, FALSE) on a vector no longer than n.
RECURSIVE resize(_, _)
resize(v, n) == IF Len(v) >= n THEN v ELSE resize(Append(v, FALSE), n)

\* Mutant: the history is updated whatever the hook returns.
process_send_always_recorded(id, c, state) ==
    [panic |-> FALSE,
     state |-> [state EXCEPT !.history = Append(@, c.dst),
                             !.network = @ \cup {Envelope(id, c.dst, c.msg)}]]

\* Mutant: the envelope names its destination as its source.
process_send_from_dst(id, c, state) ==
    LET h == record_msg_out(state.history, id, c.dst, c.msg)
        recorded == IF h = {} THEN state ELSE [state EXCEPT !.history = CHOOSE x \in h : TRUE]
    IN [panic |-> FALSE,
        state |-> [recorded EXCEPT !.network = @ \cup {Envelope(c.dst, c.dst, c.msg)}]]

process_send(id, c, state) ==
    LET h == record_msg_out(state.history, id, c.dst, c.msg)
        recorded == IF h = {} THEN state ELSE [state EXCEPT !.history = CHOOSE x \in h : TRUE]
    IN [panic |-> FALSE,
        state |-> [recorded EXCEPT !.network = @ \cup {Envelope(id, c.dst, c.msg)}]]

\* Mutant: the slot is set only by the resize that creates it.
process_set_timer_by_resize(index, state) ==
    IF Len(state.is_timer_set) <= index
    THEN [panic |-> FALSE,
          state |-> [state EXCEPT !.is_timer_set =
                        [resize(@, index + 1) EXCEPT ![index + 1] = TRUE]]]
    ELSE [panic |-> FALSE, state |-> state]

\* Mutant: SetTimer sets the slot of the actor and every slot before it.
process_set_timer_up_to(index, state) ==
    LET timers == state.is_timer_set
        len == IF Len(timers) <= index THEN index + 1 ELSE Len(timers)
    IN [panic |-> FALSE,
        state |-> [state EXCEPT !.is_timer_set =
                      [k \in 1 .. len |-> IF k <= index + 1 THEN TRUE ELSE timers[k]]]]

process_set_timer(index, state) ==
    LET grown == resize(state.is_timer_set, index + 1)
    IN [panic |-> FALSE,
        state |-> [state EXCEPT !.is_timer_set = [grown EXCEPT ![index + 1] = TRUE]]]

process_cancel_timer(index, state) ==
    IF Len(state.is_timer_set) <= index
    THEN [panic |-> TRUE, state |-> state]
    ELSE [panic |-> FALSE,
          state |-> [state EXCEPT !.is_timer_set = [@ EXCEPT ![index + 1] = FALSE]]]

process_command(id, c, state) ==
    IF c.type = "Send" THEN process_send(id, c, state)
    ELSE IF c.type = "SetTimer" THEN process_set_timer(id, state)
    ELSE process_cancel_timer(id, state)

RECURSIVE process_commands(_, _, _)
process_commands(id, commands, state) ==
    IF commands = <<>> THEN [panic |-> FALSE, state |-> state]
    ELSE LET r == process_command(id, Head(commands), state)
         IN IF r.panic THEN r ELSE process_commands(id, Tail(commands), r.state)

-----------------------------------------------------------------------------
(* SystemAction and the Model interface: init_states, actions, next_state. *)
(* A call returns [panic, ret]: ret is the Option the code returns.         *)

Drop(env) == [type |-> "Drop", src |-> env.src, dst |-> env.dst, msg |-> env.msg]
Deliver(src, dst, msg) == [type |-> "Deliver", src |-> src, dst |-> dst, msg |-> msg]
Timeout(id) == [type |-> "Timeout", src |-> id, dst |-> id]

Range(seq) == {seq[i] : i \in 1 .. Len(seq)}

EnvelopeOf(a) == Envelope(a.src, a.dst, a.msg)

\* The iteration order of the network: fixed for a given set, otherwise arbitrary.
RECURSIVE Iter(_)
Iter(S) ==
    IF S = {} THEN <<>>
    ELSE LET e == CHOOSE x \in S : TRUE IN <<e>> \o Iter(S \ {e})

\* One on_start result per actor, in index order.
RECURSIVE StartsFrom(_)
StartsFrom(index) ==
    IF index >= Len(actors) THEN {<<>>}
    ELSE {<<r>> \o rest : r \in on_start(actors[index + 1], index),
                          rest \in StartsFrom(index + 1)}

RECURSIVE init_each_actor(_, _, _)
init_each_actor(index, starts, state) ==
    IF index >= Len(actors) THEN [panic |-> FALSE, ret |-> {state}]
    ELSE LET r == starts[index + 1]
             pushed == [state EXCEPT !.actor_states = Append(@, r.state)]
             p == process_commands(index, r.out, pushed)
         IN IF p.panic THEN [panic |-> TRUE, ret |-> {}]
            ELSE init_each_actor(index + 1, starts, p.state)

init_states(starts) ==
    LET init_sys_state ==
            SystemState(<<>>, {init_network[i] : i \in 1 .. Len(init_network)},
                        <<>>, DefaultHistory)
    IN init_each_actor(0, starts, init_sys_state)

\* Mutant: a Deliver is pushed whatever the destination.
envelope_options_any_dst(env, acc) ==
    LET dropped == IF lossy_network THEN Append(acc, Drop(env)) ELSE acc
    IN Append(dropped, Deliver(env.src, env.dst, env.msg))

\* Mutant: the Deliver of an envelope is pushed before its Drop.
envelope_options_deliver_first(env, acc) ==
    LET delivered == IF env.dst < Len(actors)
                     THEN Append(acc, Deliver(env.src, env.dst, env.msg))
                     ELSE acc
    IN IF lossy_network THEN Append(delivered, Drop(env)) ELSE delivered

\* Mutant: no Drop is pushed.
envelope_options_never_lossy(env, acc) ==
    IF env.dst < Len(actors)
    THEN Append(acc, Deliver(env.src, env.dst, env.msg))
    ELSE acc

\* Mutant: a Drop is pushed whatever the network policy.
envelope_options_always_lossy(env, acc) ==
    LET dropped == Append(acc, Drop(env))
    IN IF env.dst < Len(actors)
       THEN Append(dropped, Deliver(env.src, env.dst, env.msg))
       ELSE dropped

\* The body of the loop over the network: the options for one envelope.
envelope_options(env, acc) ==
    LET dropped == IF lossy_network THEN Append(acc, Drop(env)) ELSE acc
    IN IF env.dst < Len(actors)
       THEN Append(dropped, Deliver(env.src, env.dst, env.msg))
       ELSE dropped

RECURSIVE envelope_actions(_, _)
envelope_actions(envs, acc) ==
    IF envs = <<>> THEN acc
    ELSE envelope_actions(Tail(envs), envelope_options(Head(envs), acc))

RECURSIVE timeout_actions(_, _, _)
timeout_actions(index, timers, acc) ==
    IF index >= Len(timers) THEN acc
    ELSE timeout_actions(index + 1, timers,
                         IF timers[index + 1] THEN Append(acc, Timeout(index)) ELSE acc)

actions(state) ==
    timeout_actions(0, state.is_timer_set, envelope_actions(Iter(state.network), <<>>))

\* Mutant: the dropped envelope stays in the network.
next_state_drop_kept(last_sys_state, env) == [panic |-> FALSE, ret |-> {last_sys_state}]

\* Mutant: the dropped envelope is recorded as a message in.
next_state_drop_recorded(last_sys_state, env) ==
    LET h == record_msg_in(last_sys_state.history, env.src, env.dst, env.msg)
        tracked == IF h = {} THEN last_sys_state
                   ELSE [last_sys_state EXCEPT !.history = CHOOSE x \in h : TRUE]
    IN [panic |-> FALSE, ret |-> {[tracked EXCEPT !.network = @ \ {env}]}]

\* Mutant: the Drop of an envelope returns the snapshot with the envelope and
\* the snapshot without it.
next_state_drop_either(last_sys_state, env) ==
    [panic |-> FALSE,
     ret |-> {last_sys_state, [last_sys_state EXCEPT !.network = @ \ {env}]}]

next_state_drop(last_sys_state, env) ==
    [panic |-> FALSE, ret |-> {[last_sys_state EXCEPT !.network = @ \ {env}]}]

\* Mutant: the delivered envelope is never removed.
drop_delivered_never(state, env) == state

\* Mutant: the delivered envelope is removed whatever the network policy.
drop_delivered_always(state, env) == [state EXCEPT !.network = @ \ {env}]

\* Drop the delivered message if not a duplicating network.
drop_delivered(state, env) ==
    IF ~duplicating_network THEN [state EXCEPT !.network = @ \ {env}] ELSE state

\* Mutant: the revised actor state is not swapped in.
next_state_deliver_state_kept(last_sys_state, src, id, msg, r) ==
    IF id >= Len(last_sys_state.actor_states) THEN [panic |-> FALSE, ret |-> {}]
    ELSE IF is_no_op(r.state, r.out) THEN [panic |-> FALSE, ret |-> {}]
    ELSE LET h == record_msg_in(last_sys_state.history, src, id, msg)
             removed == drop_delivered(last_sys_state, Envelope(src, id, msg))
             tracked == IF h = {} THEN removed
                        ELSE [removed EXCEPT !.history = CHOOSE x \in h : TRUE]
             p == process_commands(id, r.out, tracked)
         IN IF p.panic THEN [panic |-> TRUE, ret |-> {}]
            ELSE [panic |-> FALSE, ret |-> {p.state}]

\* Mutant: the in-hook's history is assigned after the commands are processed.
next_state_deliver_in_hook_last(last_sys_state, src, id, msg, r) ==
    IF id >= Len(last_sys_state.actor_states) THEN [panic |-> FALSE, ret |-> {}]
    ELSE IF is_no_op(r.state, r.out) THEN [panic |-> FALSE, ret |-> {}]
    ELSE LET removed == drop_delivered(last_sys_state, Envelope(src, id, msg))
             swapped == IF r.state.owned
                        THEN [removed EXCEPT !.actor_states[id + 1] = r.state.value]
                        ELSE removed
             p == process_commands(id, r.out, swapped)
             h == record_msg_in(p.state.history, src, id, msg)
             tracked == IF h = {} THEN p.state
                        ELSE [p.state EXCEPT !.history = CHOOSE x \in h : TRUE]
         IN IF p.panic THEN [panic |-> TRUE, ret |-> {}]
            ELSE [panic |-> FALSE, ret |-> {tracked}]

\* r is what on_msg returned; it is read only when the actor exists.
next_state_deliver(last_sys_state, src, id, msg, r) ==
    IF id >= Len(last_sys_state.actor_states) THEN [panic |-> FALSE, ret |-> {}]
    ELSE IF is_no_op(r.state, r.out) THEN [panic |-> FALSE, ret |-> {}]
    ELSE LET h == record_msg_in(last_sys_state.history, src, id, msg)
             removed == drop_delivered(last_sys_state, Envelope(src, id, msg))
             swapped == IF r.state.owned
                        THEN [removed EXCEPT !.actor_states[id + 1] = r.state.value]
                        ELSE removed
             tracked == IF h = {} THEN swapped
                        ELSE [swapped EXCEPT !.history = CHOOSE x \in h : TRUE]
             p == process_commands(id, r.out, tracked)
         IN IF p.panic THEN [panic |-> TRUE, ret |-> {}]
            ELSE [panic |-> FALSE, ret |-> {p.state}]

keep_timer(out) == \E i \in 1 .. Len(out) : out[i].type = "SetTimer"

\* Mutant: a no-op on_timeout is pruned like a no-op on_msg.
timeout_early_exit_on_no_op(state, out) == is_no_op(state, out)

\* The early exit of Timeout: a no-op that keeps the timer.
timeout_early_exit(state, out) == is_no_op(state, out) /\ keep_timer(out)

\* Mutant: the fired timer is left set.
timer_no_longer_valid_kept(state, index) == state

\* "Timer is no longer valid": the slot of the fired timer is cleared.
timer_no_longer_valid(state, index) == [state EXCEPT !.is_timer_set[index + 1] = FALSE]

\* r is what on_timeout returned.
next_state_timeout(last_sys_state, id, r) ==
    IF id >= Len(last_sys_state.actor_states) THEN [panic |-> TRUE, ret |-> {}]
    ELSE IF timeout_early_exit(r.state, r.out) THEN [panic |-> FALSE, ret |-> {}]
    ELSE IF id >= Len(last_sys_state.is_timer_set) THEN [panic |-> TRUE, ret |-> {}]
    ELSE LET cleared == timer_no_longer_valid(last_sys_state, id)
             swapped == IF r.state.owned
                        THEN [cleared EXCEPT !.actor_states[id + 1] = r.state.value]
                        ELSE cleared
             p == process_commands(id, r.out, swapped)
         IN IF p.panic THEN [panic |-> TRUE, ret |-> {}]
            ELSE [panic |-> FALSE, ret |-> {p.state}]

-----------------------------------------------------------------------------
(* The explorer's breadth-first search as a function: the snapshots it      *)
(* generates from the initial ones, never descending beyond the boundary.   *)

\* Every successor next_state can return for action a on snapshot s.
Successors(s, a) ==
    IF a.type = "Drop" THEN next_state_drop(s, EnvelopeOf(a)).ret
    ELSE IF a.type = "Deliver"
    THEN UNION {next_state_deliver(s, a.src, a.dst, a.msg, r).ret :
                  r \in on_msg(actors[a.dst + 1], a.dst, s.actor_states[a.dst + 1],
                               a.src, a.msg)}
    ELSE UNION {next_state_timeout(s, a.dst, r).ret :
                  r \in on_timeout(actors[a.dst + 1], a.dst, s.actor_states[a.dst + 1])}

NextStates(s) == UNION {Successors(s, a) : a \in Range(actions(s))}

RECURSIVE Generated(_, _)
Generated(frontier, seen) ==
    IF frontier = {} THEN seen
    ELSE LET new == {t \in UNION {NextStates(s) : s \in frontier} : within_boundary(t)}
                        \ seen
         IN Generated(new, seen \cup new)

\* The snapshots generated from the initial ones of the on_start results starts.
Reachable(starts) ==
    LET init == {s \in init_states(starts).ret : within_boundary(s)}
    IN Generated(init, init)

-----------------------------------------------------------------------------
(* The systems explored: the TestSystems of the tests                      *)
(* handles_undeliverable_messages and resets_timer, and generic systems of *)
(* up to MaxActors arbitrary actors under every network policy.            *)

\* The destination of the seeded envelope in handles_undeliverable_messages.
UnknownId == 99

\* A System that keeps the defaults of the trait but for what the record says.
TestSystem == [kind |-> "TestSystem", max_nat |-> 0, maintains_history |-> FALSE]

UndeliverableSystem ==
    [system |-> TestSystem, actors |-> <<>>, init_network |-> <<Envelope(0, UnknownId, Unit)>>,
     lossy_network |-> FALSE, duplicating_network |-> TRUE]

TimerSystem ==
    [system |-> TestSystem, actors |-> <<"TimerActor">>, init_network |-> <<>>,
     lossy_network |-> FALSE, duplicating_network |-> TRUE]

\* The actors of a generic system: at most one arbitrary actor among TimerActors.
RECURSIVE ActorLists(_)
ActorLists(n) ==
    IF n = 0 THEN {<<>>}
    ELSE {Append(l, "TimerActor") : l \in ActorLists(n - 1)}
         \cup {Append(l, "Any") : l \in {x \in ActorLists(n - 1) :
                                          \A i \in 1 .. Len(x) : x[i] # "Any"}}

GenericSystems ==
    {[system |-> TestSystem, actors |-> l, init_network |-> seed,
      lossy_network |-> lossy, duplicating_network |-> dup] :
        l \in UNION {ActorLists(n) : n \in 0 .. MaxActors},
        seed \in {<<>>, <<Envelope(0, 1, "m")>>},
        lossy \in BOOLEAN, dup \in BOOLEAN}

\* PingPongSystem { max_nat, lossy, duplicating, maintains_history }.
PingPongSystem(max_nat, lossy, duplicating, maintains_history) ==
    [system |-> [kind |-> "PingPongSystem", max_nat |-> max_nat,
                 maintains_history |-> maintains_history],
     actors |-> <<"Pinger", "Ponger">>, init_network |-> <<>>,
     lossy_network |-> lossy, duplicating_network |-> duplicating]

\* The systems of the tests visits_expected_states and
\* maintains_fixed_delta_despite_lossy_duplicating_network.
PingPongSystems ==
    {PingPongSystem(1, TRUE, TRUE, FALSE), PingPongSystem(5, TRUE, TRUE, FALSE),
     PingPongSystem(5, FALSE, FALSE, FALSE)}

\* One arbitrary actor whose traffic is logged, delivered at most once.
LogSystems ==
    {[system |-> [kind |-> "LogSystem", max_nat |-> 0, maintains_history |-> TRUE],
      actors |-> <<"Any">>, init_network |-> <<>>,
      lossy_network |-> TRUE, duplicating_network |-> FALSE]}

\* LogicalClockSystem { max_expected: 3 } of the example, on the default network.
max_expected == 3

LogicalClockSystems ==
    {[system |-> [kind |-> "LogicalClockSystem", max_nat |-> 0, maintains_history |-> FALSE],
      actors |-> <<"LogicalClockActor", "BootstrappingLogicalClockActor">>,
      init_network |-> <<>>,
      lossy_network |-> FALSE, duplicating_network |-> TRUE]}

\* RegisterTestSystem { servers, client_count, within_boundary, lossy_network,
\* duplicating_network }: the servers come first, then the clients.
RECURSIVE Clients(_)
Clients(client_count) ==
    IF client_count = 0 THEN <<>> ELSE Append(Clients(client_count - 1), "Client")

RegisterTestSystem(servers, client_count, lossy, duplicating) ==
    [system |-> [kind |-> "RegisterSystem", max_nat |-> 0, maintains_history |-> TRUE],
     actors |-> servers \o Clients(client_count), init_network |-> <<>>,
     lossy_network |-> lossy, duplicating_network |-> duplicating]

\* The default system (2 clients, lossless and duplicating network) over one
\* single-copy server; the same on a network that does not duplicate; one
\* client over two single-copy servers; one client over an arbitrary server.
RegisterSystems ==
    {RegisterTestSystem(<<"SingleCopyServer">>, 2, FALSE, TRUE),
     RegisterTestSystem(<<"SingleCopyServer">>, 2, FALSE, FALSE),
     RegisterTestSystem(<<"SingleCopyServer", "SingleCopyServer">>, 1, FALSE, FALSE),
     RegisterTestSystem(<<"SingleCopyServer">>, 1, TRUE, TRUE),
     RegisterTestSystem(<<"AnyServer">>, 1, FALSE, FALSE)}

Systems == {UndeliverableSystem, TimerSystem} \cup GenericSystems
             \cup PingPongSystems \cup LogSystems \cup LogicalClockSystems
             \cup RegisterSystems

NoAction == [type |-> "None"]
NoCall == [op |-> "none", action |-> NoAction, starts |-> <<>>,
           state |-> Borrowed(Unit), out |-> <<>>, panic |-> FALSE, ret |-> {}]

\* into_model: the model is built, no snapshot exists yet.
Init ==
    /\ \E sys \in Systems :
        /\ system = sys.system
        /\ actors = sys.actors
        /\ init_network = sys.init_network
        /\ lossy_network = sys.lossy_network
        /\ duplicating_network = sys.duplicating_network
    /\ pc = "model"
    /\ actor_states = <<>>
    /\ network = {}
    /\ is_timer_set = <<>>
    /\ history = <<>>
    /\ call = NoCall

Returned(op, action, starts, r, result) ==
    /\ call' = [op |-> op, action |-> action, starts |-> starts,
                state |-> r.state, out |-> r.out,
                panic |-> result.panic, ret |-> result.ret]
    /\ pc' = IF result.panic THEN "panicked" ELSE "returned"
    /\ UNCHANGED <<model_vars, state_vars>>

NoResult == [state |-> Borrowed(Unit), out |-> <<>>]

\* The explorer calls init_states once.
InitStates ==
    /\ pc = "model"
    /\ \E starts \in StartsFrom(0) :
        Returned("init_states", NoAction, starts, NoResult, init_states(starts))

\* The explorer calls next_state with an action that actions() enumerated.
NextStateDrop ==
    /\ pc = "explore"
    /\ \E a \in Range(actions(Snapshot)) :
        /\ a.type = "Drop"
        /\ Returned("next_state", a, <<>>, NoResult,
                    next_state_drop(Snapshot, EnvelopeOf(a)))

NextStateDeliver ==
    /\ pc = "explore"
    /\ \E a \in Range(actions(Snapshot)) :
        /\ a.type = "Deliver"
        /\ \E r \in on_msg(actors[a.dst + 1], a.dst, actor_states[a.dst + 1], a.src, a.msg) :
            Returned("next_state", a, <<>>, r,
                     next_state_deliver(Snapshot, a.src, a.dst, a.msg, r))

NextStateTimeout ==
    /\ pc = "explore"
    /\ \E a \in Range(actions(Snapshot)) :
        /\ a.type = "Timeout"
        /\ \E r \in on_timeout(actors[a.dst + 1], a.dst, actor_states[a.dst + 1]) :
            Returned("next_state", a, <<>>, r,
                     next_state_timeout(Snapshot, a.dst, r))

\* The timestamps of the logical clocks grow without limit: the explorer
\* follows them up to MaxTimestamp.
TimestampsCapped(s) ==
    system.kind = "LogicalClockSystem" =>
        \A i \in 1 .. Len(s.actor_states) : s.actor_states[i] <= MaxTimestamp

\* The explorer takes the returned snapshot as the next one to expand, unless
\* it is beyond the boundary.
Visit ==
    /\ pc = "returned"
    /\ \E s \in call.ret :
        /\ within_boundary(s)
        /\ TimestampsCapped(s)
        /\ actor_states' = s.actor_states
        /\ network' = s.network
        /\ is_timer_set' = s.is_timer_set
        /\ history' = s.history
    /\ pc' = "explore"
    /\ call' = NoCall
    /\ UNCHANGED model_vars

\* The explorer goes on with another action of the snapshot it is expanding.
Continue ==
    /\ pc = "returned"
    /\ call.op = "next_state"
    /\ pc' = "explore"
    /\ call' = NoCall
    /\ UNCHANGED <<model_vars, state_vars>>

Next ==
    \/ InitStates
    \/ NextStateDrop
    \/ NextStateDeliver
    \/ NextStateTimeout
    \/ Visit
    \/ Continue

Spec == Init /\ [][Next]_vars

\* One path of the explorer over a perfect network: from the snapshot it is
\* at, it moves to one of the successors within the boundary.
Step ==
    /\ pc = "explore"
    /\ \E s \in NextStates(Snapshot) :
        /\ within_boundary(s)
        /\ actor_states' = s.actor_states
        /\ network' = s.network
        /\ is_timer_set' = s.is_timer_set
        /\ history' = s.history
    /\ UNCHANGED <<model_vars, pc, call>>

PathNext ==
    \/ InitStates
    \/ Visit
    \/ Step

\* The paths the explorer judges an "eventually" property on are maximal: a
\* path ends only at a snapshot without successor within the boundary.
PathInit ==
    /\ Init
    /\ system.kind \in {"TestSystem", "PingPongSystem"}
    /\ ~lossy_network
    /\ ~duplicating_network

Paths == PathInit /\ [][PathNext]_vars /\ WF_vars(PathNext)

-----------------------------------------------------------------------------
(* Vocabulary of the properties.  While pc is "returned" the variables     *)
(* hold the snapshot next_state was given and call.ret what it returned.   *)

NextStateCalled(type) ==
    /\ pc \in {"returned", "panicked"}
    /\ call.op = "next_state"
    /\ call.action.type = type

ActorCount == Len(actors)

TimerOf(state, id) == id < Len(state.is_timer_set) /\ state.is_timer_set[id + 1]

IsTimerCommand(c) == c.type \in {"SetTimer", "CancelTimer"}

SetTimerCount(out) == Cardinality({i \in 1 .. Len(out) : out[i].type = "SetTimer"})

Cancels(out) == \E i \in 1 .. Len(out) : out[i].type = "CancelTimer"

Occurrences(seq, x) == Cardinality({i \in 1 .. Len(seq) : seq[i] = x})

\* A result of on_msg that is no no-op, for calls that never consult the actor.
SomeResult == [state |-> Owned("s1"), out |-> <<SetTimer>>]

-----------------------------------------------------------------------------
C2_NoOpTimeoutReturnsNone ==
    (/\ NextStateCalled("Timeout")
     /\ ~call.state.owned
     /\ call.out = <<>>)
    => call.ret = {}

\* C2 amended: pruning does not extend to Timeout.  Every enumerated Timeout
\* returns a successor, and after a no-op on_timeout the successor is the
\* snapshot with the timer of the actor cleared.
C2_TimeoutAlwaysReturnsSuccessor ==
    NextStateCalled("Timeout")
    => /\ ~call.panic
       /\ Cardinality(call.ret) = 1
       /\ (~call.state.owned /\ call.out = <<>>)
            => \A s \in call.ret : ~TimerOf(s, call.action.dst)

C2_Witness ==
    /\ NextStateCalled("Timeout")
    /\ actors[call.action.dst + 1] = "Any"
    /\ ~call.state.owned
    /\ call.out = <<>>
    /\ call.ret # {}

\* Whether the transition of the call sent the envelope it was delivered.
Resent == \E i \in 1 .. Len(call.out) :
            /\ call.action.src = call.action.dst
            /\ call.out[i] = Send(call.action.dst, call.action.msg)

\* C3 as stated: after a Deliver that yields a successor the delivered
\* envelope is in the successor's network iff the network is duplicating.
C3_EnvelopePresentIffDuplicating ==
    NextStateCalled("Deliver")
    => \A s \in call.ret : (EnvelopeOf(call.action) \in s.network) <=> duplicating_network

\* C3 amended: on a duplicating network the envelope remains; on a
\* non-duplicating one it is absent unless the receiving actor sent an equal
\* envelope (the same message to itself) in this transition.
C3_EnvelopePresentIffDuplicatingOrResent ==
    NextStateCalled("Deliver")
    => \A s \in call.ret :
         (EnvelopeOf(call.action) \in s.network) <=> (duplicating_network \/ Resent)

C3_Witness ==
    /\ NextStateCalled("Deliver")
    /\ ~duplicating_network
    /\ call.out # <<>>
    /\ ~Resent
    /\ \E s \in call.ret : EnvelopeOf(call.action) \notin s.network

Undeliverable(env) == env.dst >= ActorCount

\* C4: an envelope addressed to no actor is never delivered: actions() has no
\* Deliver for it, next_state returns None for such a Deliver, on a lossless
\* network it is in every successor, and the system seeded with nothing but
\* such an envelope has no enabled action and does not fail.
C4_UndeliverableNeverConsumed ==
    /\ pc = "explore" =>
        \A env \in network :
            Undeliverable(env) =>
                /\ Occurrences(actions(Snapshot), Deliver(env.src, env.dst, env.msg)) = 0
                /\ next_state_deliver(Snapshot, env.src, env.dst, env.msg, SomeResult)
                     = [panic |-> FALSE, ret |-> {}]
    /\ (pc = "returned" /\ ~lossy_network) =>
        \A env \in network :
            Undeliverable(env) => \A s \in call.ret : env \in s.network
    /\ (pc = "returned" /\ call.op = "init_states") =>
        \A s \in call.ret : \A i \in 1 .. Len(init_network) : init_network[i] \in s.network
    /\ (actors = <<>> /\ init_network # <<>> /\ ~lossy_network) =>
        /\ pc # "panicked"
        /\ pc = "explore" =>
            /\ network = Range(init_network)
            /\ actions(Snapshot) = <<>>

C4_Witness ==
    /\ NextStateCalled("Deliver")
    /\ ~lossy_network
    /\ ~duplicating_network
    /\ call.ret # {}
    /\ \E env \in network : Undeliverable(env) /\ env # EnvelopeOf(call.action)

\* C5: for every snapshot the explorer expands, actions() holds no Drop on a
\* lossless network and, on a lossy one, exactly one Drop for each envelope of
\* the network and none for any other.
C5_DropEnumeratedIffLossy ==
    pc = "explore" =>
        LET acts == actions(Snapshot)
        IN /\ ~lossy_network => \A i \in 1 .. Len(acts) : acts[i].type # "Drop"
           /\ lossy_network =>
                /\ \A env \in network : Occurrences(acts, Drop(env)) = 1
                /\ \A i \in 1 .. Len(acts) :
                     acts[i].type = "Drop" => EnvelopeOf(acts[i]) \in network

C5_Witness ==
    /\ NextStateCalled("Drop")
    /\ Undeliverable(EnvelopeOf(call.action))
    /\ Cardinality(network) >= 2
    /\ \E s \in call.ret : s.network = network \ {EnvelopeOf(call.action)}

\* C6: after a Timeout(id) that yields a successor, the timer of id is set in
\* the successor only if on_timeout emitted a SetTimer command.
C6_TimerClearedUnlessReset ==
    NextStateCalled("Timeout")
    => /\ TimerOf(Snapshot, call.action.dst)
       /\ \A s \in call.ret :
            TimerOf(s, call.action.dst) => SetTimerCount(call.out) > 0

C6_Witness ==
    /\ NextStateCalled("Timeout")
    /\ call.state.owned
    /\ call.out # <<>>
    /\ SetTimerCount(call.out) = 0
    /\ \E s \in call.ret : ~TimerOf(s, call.action.dst)

TimerSetSnapshot == SystemState(<<Unit>>, {}, <<TRUE>>, DefaultHistory)
TimerClearedSnapshot == SystemState(<<Unit>>, {}, <<FALSE>>, DefaultHistory)

\* C7: a Timeout of an actor with the default on_timeout returns the snapshot
\* with only that actor's timer cleared, and the system of the test
\* resets_timer reaches the timer-set and the timer-cleared snapshot only.
C7_DefaultTimeoutOnlyClearsTimer ==
    /\ (NextStateCalled("Timeout") /\ actors[call.action.dst + 1] = "TimerActor")
        => call.ret = {[Snapshot EXCEPT !.is_timer_set[call.action.dst + 1] = FALSE]}
    /\ (actors = <<"TimerActor">> /\ init_network = <<>>) =>
        /\ pc # "panicked"
        /\ (pc = "returned" /\ call.op = "init_states") => call.ret = {TimerSetSnapshot}
        /\ pc = "explore" => Snapshot \in {TimerSetSnapshot, TimerClearedSnapshot}
        /\ NextStateCalled("Timeout") => call.ret = {TimerClearedSnapshot}
        /\ pc = "returned" => call.op = "init_states" \/ call.action = Timeout(0)

C7_Witness ==
    /\ actors = <<"TimerActor">>
    /\ init_network = <<>>
    /\ pc = "explore"
    /\ Snapshot = TimerClearedSnapshot
    /\ actions(Snapshot) = <<>>

\* The actor transitions of the call: on_start of every actor for init_states,
\* else the on_msg or on_timeout that next_state ran.
Transitions ==
    IF call.op = "init_states"
    THEN {[id |-> i, out |-> call.starts[i + 1].out] : i \in 0 .. ActorCount - 1}
    ELSE IF call.op = "next_state" /\ call.action.type \in {"Deliver", "Timeout"}
    THEN {[id |-> call.action.dst, out |-> call.out]}
    ELSE {}

TimerCommandAt(out) == {i \in 1 .. Len(out) : IsTimerCommand(out[i])}

LastTimerCommand(out) ==
    out[CHOOSE i \in TimerCommandAt(out) : \A j \in TimerCommandAt(out) : j <= i]

\* Sequences of at most two ids, the recipients of a broadcast.
Recipients == {<<>>} \cup {<<a>> : a \in 0 .. MaxActors}
                \cup {<<a, b>> : a \in 0 .. MaxActors, b \in 0 .. MaxActors}

\* C8: a transition that emits timer commands ends with the timer of its
\* actor as the last of them says (set after SetTimer, unset after
\* CancelTimer), and broadcast emits one Send per recipient in their order.
C8_LastTimerCommandDecides ==
    /\ pc \in {"returned", "panicked"} =>
        \A tr \in Transitions :
            TimerCommandAt(tr.out) # {} =>
                /\ call.ret # {}
                /\ \A s \in call.ret :
                     TimerOf(s, tr.id) <=> (LastTimerCommand(tr.out).type = "SetTimer")
    /\ \A r \in Recipients, m \in Msgs :
        broadcast(<<>>, r, m) = [i \in 1 .. Len(r) |-> Send(r[i], m)]

\* Whether out cancels the timer before it sets it.
CancelsFirst(out) ==
    \E i \in 1 .. Len(out) :
        /\ out[i].type = "CancelTimer"
        /\ \A j \in 1 .. i - 1 : out[j].type # "SetTimer"

\* C9: a CancelTimer command of an actor whose timer slot is absent is
\* processed without failure (and the timer stays unset).
C9_CancelTimerOnAbsentSlotIsNoOp ==
    pc \in {"returned", "panicked"} =>
        \A tr \in Transitions :
            (/\ CancelsFirst(tr.out)
             /\ call.op = "next_state" => Len(is_timer_set) <= tr.id)
            => /\ ~call.panic
               /\ SetTimerCount(tr.out) = 0 => \A s \in call.ret : ~TimerOf(s, tr.id)

\* C10: a transition that sets the timer twice or more, or sets a timer that
\* is already set, and does not cancel it, ends with the timer set and with
\* exactly one Timeout of its actor among the actions of the successor.
C10_SetTimerIsIdempotent ==
    pc \in {"returned", "panicked"} =>
        \A tr \in Transitions :
            (/\ ~Cancels(tr.out)
             /\ \/ SetTimerCount(tr.out) >= 2
                \/ SetTimerCount(tr.out) >= 1 /\ call.op = "next_state"
                                              /\ TimerOf(Snapshot, tr.id))
            => /\ ~call.panic
               /\ call.op = "next_state" => call.ret # {}
               /\ \A s \in call.ret :
                    /\ TimerOf(s, tr.id)
                    /\ Occurrences(actions(s), Timeout(tr.id)) = 1

C10_Witness ==
    /\ NextStateCalled("Deliver")
    /\ call.out = <<SetTimer, SetTimer>>
    /\ ~call.state.owned
    /\ Len(is_timer_set) > call.action.dst
    /\ ~TimerOf(Snapshot, call.action.dst)
    /\ \E s \in call.ret : Occurrences(actions(s), Timeout(call.action.dst)) = 1

-----------------------------------------------------------------------------
\* The snapshots of the state: the one being expanded and, after a call, the
\* ones the call returned.
Snapshots ==
    (IF pc = "explore" THEN {Snapshot} ELSE {})
    \cup (IF pc = "returned" THEN call.ret ELSE {})

\* C11 as stated: in every snapshot every envelope of the network has
\* src < actor_count, also in systems that seed the network.
C11_EnvelopeSrcIsActor ==
    \A s \in Snapshots : \A env \in s.network : env.src < ActorCount

\* C11 amended: every envelope of the network is one of init_network, which is
\* inserted as given, or has src < actor_count.
C11_EnvelopeSrcIsActorOrSeeded ==
    \A s \in Snapshots :
        \A env \in s.network : env \in Range(init_network) \/ env.src < ActorCount

C11_Witness ==
    /\ NextStateCalled("Deliver")
    /\ init_network # <<>>
    /\ \E s \in call.ret : \E env \in s.network :
          env \notin network /\ env \notin Range(init_network) /\ env.dst >= ActorCount

\* C12: in every snapshot actor_states has actor_count entries and
\* is_timer_set at most actor_count; every Timeout(id) that actions() enumerates
\* has id < actor_count and its timer set, and next_state for it does not fail.
C12_VectorLengthsBounded ==
    /\ \A s \in Snapshots :
         /\ Len(s.actor_states) = ActorCount
         /\ Len(s.is_timer_set) <= ActorCount
         /\ \A a \in Range(actions(s)) :
              a.type = "Timeout" => a.dst < ActorCount /\ TimerOf(s, a.dst)
    /\ NextStateCalled("Timeout") =>
         /\ ~call.panic
         /\ call.action.dst < Len(actor_states)
         /\ call.action.dst < Len(is_timer_set)

C12_Witness ==
    /\ NextStateCalled("Timeout")
    /\ ActorCount = MaxActors
    /\ call.action.dst = ActorCount - 1
    /\ Cancels(call.out)
    /\ \E s \in call.ret : Len(s.is_timer_set) = ActorCount

\* Whether both hooks of the system always return None.
HooksReturnNone == system.kind # "LogSystem" /\ ~system.maintains_history

\* C13: if both hooks always return None, the history of every snapshot is
\* History::default(), whatever actions were taken.
C13_HistoryStaysDefault ==
    HooksReturnNone => \A s \in Snapshots : s.history = DefaultHistory

C13_Witness ==
    /\ HooksReturnNone
    /\ NextStateCalled("Deliver")
    /\ is_timer_set # <<>>
    /\ \E i \in 1 .. Len(call.out) : call.out[i].type = "Send"
    /\ \E s \in call.ret : s.history = DefaultHistory /\ s.network # network

Sends(out) == SelectSeq(out, LAMBDA c : c.type = "Send")

\* What a logging out-hook records for the Send commands of actor id, in order.
SendRecords(id, out) ==
    [i \in 1 .. Len(Sends(out)) |-> <<"out", id, Sends(out)[i].dst, Sends(out)[i].msg>>]

\* C14: in a system that logs every hook call, the successor of a Deliver has
\* the predecessor's history, then one record of the delivered message, then
\* one record per Send command in emission order; the successor of a Drop or a
\* Timeout has no record of a message in, only those of its Send commands.
C14_HooksRunInOrder ==
    (system.kind = "LogSystem" /\ pc = "returned" /\ call.op = "next_state") =>
        \A s \in call.ret :
            s.history =
                history
                \o (IF call.action.type = "Deliver"
                    THEN <<<<"in", call.action.src, call.action.dst, call.action.msg>>>>
                    ELSE <<>>)
                \o SendRecords(call.action.dst, call.out)

C14_Witness ==
    /\ system.kind = "LogSystem"
    /\ NextStateCalled("Deliver")
    /\ history # <<>>
    /\ Len(Sends(call.out)) = 2
    /\ call.out[1] # call.out[2]
    /\ call.ret # {}

\* The envelopes of the Send commands of actor id.
SentEnvelopes(id, out) == {Envelope(id, c.dst, c.msg) : c \in Range(Sends(out))}

\* What a logging out-hook records for the on_start sends of the actors from
\* index on, in actor-index order.
RECURSIVE StartRecords(_, _)
StartRecords(index, starts) ==
    IF index >= Len(starts) THEN <<>>
    ELSE SendRecords(index, starts[index + 1].out) \o StartRecords(index + 1, starts)

\* The history after init_states, from what the hooks of the system record.
StartHistory(starts) ==
    IF system.kind = "LogSystem" THEN StartRecords(0, starts) ELSE DefaultHistory

\* C15: init_states returns exactly one snapshot: the states on_start
\* returned, the seeded envelopes with those the on_starts sent, each timer set
\* iff the last timer command of its actor's on_start is SetTimer, and the
\* default history folded with the out-hook over the sends in actor order.
C15_InitStatesReturnsOneSnapshot ==
    (pc \in {"returned", "panicked"} /\ call.op = "init_states") =>
        /\ Cardinality(call.ret) = 1
        /\ \A s \in call.ret :
             /\ s.actor_states = [i \in 1 .. ActorCount |-> call.starts[i].state]
             /\ s.network = Range(init_network)
                    \cup UNION {SentEnvelopes(i, call.starts[i + 1].out) :
                                    i \in 0 .. ActorCount - 1}
             /\ \A i \in 0 .. ActorCount - 1 :
                  TimerOf(s, i) <=>
                      /\ TimerCommandAt(call.starts[i + 1].out) # {}
                      /\ LastTimerCommand(call.starts[i + 1].out).type = "SetTimer"
             /\ s.history = StartHistory(call.starts)

\* C16: next_state for Drop(env) returns one successor: the snapshot without
\* env in its network, with the same actor states, timers and history.
C16_DropOnlyRemovesEnvelope ==
    NextStateCalled("Drop") =>
        /\ ~call.panic
        /\ Cardinality(call.ret) = 1
        /\ \A s \in call.ret :
             /\ s.network = network \ {EnvelopeOf(call.action)}
             /\ s.actor_states = actor_states
             /\ s.is_timer_set = is_timer_set
             /\ s.history = history

C16_Witness ==
    /\ NextStateCalled("Drop")
    /\ system.kind = "LogSystem"
    /\ history # <<>>
    /\ \E i \in 1 .. Len(is_timer_set) : is_timer_set[i]
    /\ Cardinality(network) >= 2
    /\ \E s \in call.ret : Cardinality(s.network) = Cardinality(network) - 1

\* The moves of one envelope, in the order of the contract.
MovesOf(env) ==
    (IF lossy_network THEN <<Drop(env)>> ELSE <<>>)
    \o (IF env.dst < ActorCount THEN <<Deliver(env.src, env.dst, env.msg)>> ELSE <<>>)

RECURSIVE EnvelopeMoves(_)
EnvelopeMoves(envs) ==
    IF envs = <<>> THEN <<>> ELSE MovesOf(Head(envs)) \o EnvelopeMoves(Tail(envs))

\* The Timeouts of the set timers, by increasing id.
TimeoutMoves(timers) ==
    LET ids == SelectSeq([i \in 1 .. Len(timers) |-> i - 1], LAMBDA id : timers[id + 1])
    IN [i \in 1 .. Len(ids) |-> Timeout(ids[i])]

\* C17: actions() pushes, for each envelope in the iteration order of the
\* network, its Drop (if lossy) immediately before its Deliver (if the
\* destination is an actor), and after all of them the Timeouts of the set
\* timers by increasing id.
C17_ActionsAreOrdered ==
    \A s \in Snapshots :
        actions(s) = EnvelopeMoves(Iter(s.network)) \o TimeoutMoves(s.is_timer_set)

C17_Witness ==
    /\ NextStateCalled("Deliver")
    /\ call.ret = {}
    /\ lossy_network
    /\ Cardinality(network) >= 2
    /\ \E env \in network : env.dst >= ActorCount
    /\ Cardinality({i \in 1 .. Len(is_timer_set) : is_timer_set[i]}) >= 2

\* C18 as stated: no action that actions() enumerates has a successor equal to
\* the snapshot it was applied to.
C18_NoIdenticalSuccessor ==
    (pc = "returned" /\ call.op = "next_state") => \A s \in call.ret : s # Snapshot

\* C18 amended: the successor of a Drop differs from the snapshot, and a
\* Deliver whose on_msg is a no-op has no successor.  A successor equal to the
\* snapshot comes from a Deliver or Timeout whose actor took ownership of an
\* equal state or emitted commands without effect: every Send is of an envelope
\* already in the network and the timer ends as it was; for a Deliver the
\* envelope stays (duplicating network) or is sent again, for a Timeout the
\* timer is set again.
C18_IdenticalSuccessorOnlyByIneffectiveTransition ==
    (pc = "returned" /\ call.op = "next_state") =>
        /\ call.action.type = "Drop" => \A s \in call.ret : s # Snapshot
        /\ (call.action.type = "Deliver" /\ ~call.state.owned /\ call.out = <<>>)
             => call.ret = {}
        /\ \A s \in call.ret :
             s = Snapshot =>
                /\ call.action.type \in {"Deliver", "Timeout"}
                /\ call.state.owned \/ call.out # <<>>
                /\ call.state.owned => call.state.value = actor_states[call.action.dst + 1]
                /\ SentEnvelopes(call.action.dst, call.out) \subseteq network
                /\ call.action.type = "Deliver" => duplicating_network \/ Resent
                /\ call.action.type = "Timeout" => keep_timer(call.out)

C18_Witness ==
    /\ NextStateCalled("Timeout")
    /\ ~call.state.owned
    /\ call.out = <<SetTimer>>
    /\ call.ret = {Snapshot}

\* A snapshot of a PingPongSystem that maintains no history and sets no timer.
PingPongSnapshot(count0, count1, envelopes) ==
    SystemState(<<count0, count1>>, envelopes, <<>>, <<0, 0>>)

PingEnvelope(n) == Envelope(0, 1, Ping(n))
PongEnvelope(n) == Envelope(1, 0, Pong(n))

\* The 14 snapshots listed in the test visits_expected_states.
VisitsExpectedStates ==
    {PingPongSnapshot(0, 0, nw) : nw \in SUBSET {PingEnvelope(0)}}
    \cup {PingPongSnapshot(0, 1, nw) : nw \in SUBSET {PingEnvelope(0), PongEnvelope(0)}}
    \cup {PingPongSnapshot(1, 1, nw) :
            nw \in SUBSET {PingEnvelope(0), PongEnvelope(0), PingEnvelope(1)}}

\* C19: the ping-pong system with a lossy and duplicating network, max_nat 1
\* and no history generates exactly the 14 snapshots of the test, and the
\* explorer expands no other.
C19_PingPongVisitsExpectedStates ==
    (system.kind = "PingPongSystem" /\ system.max_nat = 1) =>
        /\ pc = "model" =>
             \A starts \in StartsFrom(0) :
                /\ Reachable(starts) = VisitsExpectedStates
                /\ Cardinality(Reachable(starts)) = 14
        /\ pc = "explore" => Snapshot \in VisitsExpectedStates
        /\ pc # "panicked"

C19_Witness ==
    /\ system.kind = "PingPongSystem"
    /\ system.max_nat = 1
    /\ pc = "explore"
    /\ Snapshot = PingPongSnapshot(1, 1, {PingEnvelope(1)})

\* The property "delta within 1" of the PingPongSystem.
DeltaWithinOne(s) ==
    \A i, j \in 1 .. Len(s.actor_states) : s.actor_states[i] <= s.actor_states[j] + 1

\* C20: the ping-pong system with a lossy and duplicating network and max_nat 5
\* generates 4,094 snapshots, and the counts of the two actors differ by at
\* most 1 in each of them.
C20_PingPongMaintainsFixedDelta ==
    (system.kind = "PingPongSystem" /\ system.max_nat = 5
        /\ lossy_network /\ duplicating_network) =>
        /\ pc = "model" =>
             \A starts \in StartsFrom(0) :
                /\ Cardinality(Reachable(starts)) = 4094
                /\ \A s \in Reachable(starts) : DeltaWithinOne(s)
        /\ pc = "explore" => DeltaWithinOne(Snapshot)
        /\ pc # "panicked"

C20_Witness ==
    /\ system.kind = "PingPongSystem"
    /\ system.max_nat = 5
    /\ pc = "explore"
    /\ actor_states = <<5, 5>>
    /\ Cardinality(network) = 11

\* The condition of the properties "can reach max" and "must reach max" of the
\* PingPongSystem: some actor's count equals max_nat.
ReachesMax(s) == \E i \in 1 .. Len(s.actor_states) : s.actor_states[i] = system.max_nat

\* The snapshot is terminal: no enumerated action has a successor within the
\* boundary.
Terminal(s) == {t \in NextStates(s) : within_boundary(t)} = {}

LossyDuplicatingPingPong ==
    /\ system.kind = "PingPongSystem"
    /\ system.max_nat = 5
    /\ lossy_network
    /\ duplicating_network

\* C21: in the ping-pong system with a lossy and duplicating network and
\* max_nat 5, "must reach max" fails by the single action Drop of Ping(0) from
\* the initial snapshot: the initial snapshot has not reached max and is not
\* terminal, and the successor of that Drop has not reached max and has no
\* enabled action.
C21_DropOfFirstPingNeverReachesMax ==
    LossyDuplicatingPingPong =>
        /\ (pc = "returned" /\ call.op = "init_states") =>
             /\ call.ret = {PingPongSnapshot(0, 0, {PingEnvelope(0)})}
             /\ \A s \in call.ret :
                  /\ ~ReachesMax(s)
                  /\ ~Terminal(s)
                  /\ Occurrences(actions(s), Drop(PingEnvelope(0))) = 1
        /\ (NextStateCalled("Drop") /\ Snapshot = PingPongSnapshot(0, 0, {PingEnvelope(0)})) =>
             /\ call.action = Drop(PingEnvelope(0))
             /\ call.ret = {PingPongSnapshot(0, 0, {})}
             /\ \A s \in call.ret : ~ReachesMax(s) /\ actions(s) = <<>>

C21_Witness ==
    /\ LossyDuplicatingPingPong
    /\ pc = "explore"
    /\ Snapshot = PingPongSnapshot(0, 0, {})
    /\ actions(Snapshot) = <<>>

PerfectPingPong ==
    /\ system.kind = "PingPongSystem"
    /\ system.max_nat = 5
    /\ ~lossy_network
    /\ ~duplicating_network

\* C22: in the ping-pong system on a perfect network with max_nat 5, exactly
\* 11 snapshots are generated within the boundary and no count exceeds
\* max_nat in them; every maximal path reaches a snapshot where a count equals
\* max_nat, and ends in the snapshot with counts (5, 5).
C22_PerfectDeliveryReachesMax ==
    /\ [](PerfectPingPong =>
            /\ pc = "model" =>
                 \A starts \in StartsFrom(0) :
                    /\ Cardinality(Reachable(starts)) = 11
                    /\ \A s \in Reachable(starts) :
                         /\ \A i \in 1 .. Len(s.actor_states) : s.actor_states[i] <= 5
                         /\ Terminal(s) <=> s.actor_states = <<5, 5>>
            /\ pc = "explore" => \A i \in 1 .. Len(actor_states) : actor_states[i] <= 5
            /\ pc # "panicked")
    /\ (PerfectPingPong =>
           <>(PerfectPingPong /\ pc = "explore" /\ ReachesMax(Snapshot)))
    /\ (PerfectPingPong =>
           <>[](/\ PerfectPingPong
                /\ pc = "explore"
                /\ Snapshot = PingPongSnapshot(5, 5, {PingEnvelope(5)})))

C22_Witness ==
    /\ PerfectPingPong
    /\ pc = "explore"
    /\ Snapshot = PingPongSnapshot(5, 5, {PingEnvelope(5)})
    /\ Terminal(Snapshot)

\* The property "less than max" of the LogicalClockSystem.
LessThanMax(s) == \A i \in 1 .. Len(s.actor_states) : s.actor_states[i] < max_expected

LogicalClockSnapshot(timestamp0, timestamp1, envelopes) ==
    SystemState(<<timestamp0, timestamp1>>, envelopes, <<>>, <<>>)

\* C23: in the logical-clock system of the example, "less than max" holds in
\* the initial snapshot (0, 1) and after every single action, and the trace
\* Deliver{1 -> 0, MsgWithTimestamp(1)}, Deliver{0 -> 1, MsgWithTimestamp(2)}
\* ends in the snapshot with timestamps (2, 3), which violates it.
C23_LogicalClockReachesMax ==
    system.kind = "LogicalClockSystem" =>
        /\ ~lossy_network /\ duplicating_network
        /\ (pc = "returned" /\ call.op = "init_states") =>
             /\ call.ret = {LogicalClockSnapshot(0, 1, {Envelope(1, 0, 1)})}
             /\ \A s \in call.ret :
                  /\ LessThanMax(s)
                  /\ actions(s) = <<Deliver(1, 0, 1)>>
                  /\ \A t \in NextStates(s) : LessThanMax(t)
        /\ (NextStateCalled("Deliver")
              /\ Snapshot = LogicalClockSnapshot(0, 1, {Envelope(1, 0, 1)})) =>
             call.ret = {LogicalClockSnapshot(2, 1, {Envelope(1, 0, 1), Envelope(0, 1, 2)})}
        /\ (NextStateCalled("Deliver")
              /\ Snapshot = LogicalClockSnapshot(2, 1, {Envelope(1, 0, 1), Envelope(0, 1, 2)})
              /\ call.action = Deliver(0, 1, 2)) =>
             /\ call.ret = {LogicalClockSnapshot(2, 3, {Envelope(1, 0, 1), Envelope(0, 1, 2),
                                                        Envelope(1, 0, 3)})}
             /\ \A s \in call.ret : ~LessThanMax(s)
        /\ pc # "panicked"

C23_Witness ==
    /\ system.kind = "LogicalClockSystem"
    /\ pc = "explore"
    /\ actor_states = <<2, 3>>
    /\ ~LessThanMax(Snapshot)

-----------------------------------------------------------------------------
(* The register harness: vocabulary.                                       *)

RegisterSystem == system.kind = "RegisterSystem"

\* Every server answers a Put by PutOk and a Get by GetOk.
SingleCopyServers == \A i \in 1 .. Len(actors) : actors[i] # "AnyServer"

ClientIds == {id \in 0 .. Len(actors) - 1 : actors[id + 1] = "Client"}

\* next_state was called to deliver a message to a client.
DeliveredToClient ==
    /\ NextStateCalled("Deliver")
    /\ call.action.dst \in ClientIds

\* The operations a thread invoked, in order.
Invoked(h, thread_id) ==
    LET OfThread(e) == e.type = "invoke" /\ e.thread_id = thread_id
        events == SelectSeq(h.events, OfThread)
    IN [i \in 1 .. Len(events) |-> [op |-> events[i].op, value |-> events[i].value]]

Write(value) == [op |-> "Write", value |-> value]
Read == [op |-> "Read", value |-> DefaultValue]

\* Put, Put, Get for the first client and Put, Get for every other.
RequestSequence(id) ==
    IF id = server_count
    THEN <<Write(CodeOfA + (id - server_count)), Write(CodeOfZ - (id - server_count)), Read>>
    ELSE <<Write(CodeOfA + (id - server_count)), Read>>

IsPrefix(s, t) == Len(s) <= Len(t) /\ \A i \in 1 .. Len(s) : s[i] = t[i]

\* The requests a client has issued are the first ones of its sequence, and
\* all of it once the client awaits nothing.
IssuesRequestSequence(state) ==
    \A id \in ClientIds :
        /\ IsPrefix(Invoked(state.history, id), RequestSequence(id))
        /\ state.actor_states[id + 1].awaiting = {} =>
             Invoked(state.history, id) = RequestSequence(id)

\* What a client does on start and on the reply it awaits.
ClientTransitions ==
    /\ (pc = "returned" /\ call.op = "init_states") =>
         \A id \in ClientIds :
            /\ call.starts[id + 1].state = ClientState({id}, 1)
            /\ call.starts[id + 1].out =
                 <<Send(id % server_count, Put(id, CodeOfA + (id - server_count)))>>
    /\ DeliveredToClient =>
         LET id == call.action.dst
             msg == call.action.msg
             state == actor_states[id + 1]
             next_id == (state.op_count + 1) * id
             dst == (id + state.op_count) % server_count
         IN IF state.awaiting = {} THEN is_no_op(call.state, call.out)
            ELSE IF msg.kind = "PutOk" /\ state.awaiting = {msg.request_id}
            THEN /\ call.state = Owned(ClientState({next_id}, state.op_count + 1))
                 /\ call.out =
                      IF id = server_count /\ state.op_count < 2
                      THEN <<Send(dst, Put(next_id, CodeOfZ - (id - server_count)))>>
                      ELSE <<Send(dst, Get(next_id))>>
            ELSE IF msg.kind = "GetOk" /\ state.awaiting = {msg.request_id}
            THEN /\ call.state = Owned(ClientState({}, state.op_count + 1))
                 /\ call.out = <<>>
            ELSE TRUE

RequestIds == 0 .. 3
TestValues == {DefaultValue, CodeOfA}

RegisterMsgs ==
    {Internal}
        \cup {Put(r, v) : r \in RequestIds, v \in TestValues}
        \cup {Get(r) : r \in RequestIds}
        \cup {PutOk(r) : r \in RequestIds}
        \cup {GetOk(r, v) : r \in RequestIds, v \in TestValues}

\* The message is the reply the client awaits.
Matched(state, msg) ==
    /\ msg.kind \in {"PutOk", "GetOk"}
    /\ state.awaiting = {msg.request_id}

\* Delivering msg to the client yields no successor, the client's transition
\* being a no-op.
Ignored(state, id, src, msg) ==
    \A r \in on_msg("Client", id, state.actor_states[id + 1], src, msg) :
        /\ r = [state |-> Borrowed(state.actor_states[id + 1]), out |-> <<>>]
        /\ next_state_deliver(state, src, id, msg, r) = [panic |-> FALSE, ret |-> {}]

\* C25: a client ignores every message that is not the PutOk or GetOk of the
\* request id it awaits: the delivery explored leaves its state borrowed,
\* emits nothing and yields no successor, and so would the delivery of any
\* other unmatched message, from any actor, to any client of a snapshot.
C25_ClientIgnoresUnmatched ==
    RegisterSystem =>
        /\ (DeliveredToClient
              /\ ~Matched(actor_states[call.action.dst + 1], call.action.msg)) =>
             /\ is_no_op(call.state, call.out)
             /\ call.ret = {}
             /\ ~call.panic
        /\ pc = "explore" =>
             \A id \in ClientIds, src \in 0 .. Len(actors) - 1, msg \in RegisterMsgs :
                ~Matched(actor_states[id + 1], msg) => Ignored(Snapshot, id, src, msg)

\* A reply is delivered again to a client that awaits another or none, on a
\* duplicating network.
C25_Witness ==
    /\ RegisterSystem
    /\ duplicating_network
    /\ DeliveredToClient
    /\ call.action.msg.kind = "PutOk"
    /\ actor_states[call.action.dst + 1].op_count > 1
    /\ ~Matched(actor_states[call.action.dst + 1], call.action.msg)
    /\ call.ret = {}
    /\ call.action \in Range(actions(Snapshot))

\* The command sequence is one request, the k-th of client id, sent to the
\* server (id + k) mod server_count.
SendsRequestTo(out, id, k) ==
    /\ Len(out) = 1
    /\ out[1].type = "Send"
    /\ out[1].msg.kind \in {"Put", "Get"}
    /\ out[1].dst = (id + k) % server_count
    /\ out[1].dst < server_count
    /\ actors[out[1].dst + 1] \in RegisterServers
    /\ out[1].dst \notin ClientIds

\* C26: with the clients after the servers and at least one server, the
\* k-th request of client id (k = 0 on start, k = op_count afterwards, which
\* counts the requests issued) is sent to Id((id + k) mod server_count),
\* the id of a server.
C26_RequestsAddressServers ==
    RegisterSystem =>
        /\ server_count >= 1
        /\ \A id \in ClientIds : id >= server_count
        /\ (pc = "returned" /\ call.op = "init_states") =>
             \A id \in ClientIds : SendsRequestTo(call.starts[id + 1].out, id, 0)
        /\ (DeliveredToClient /\ call.out # <<>>) =>
             LET id == call.action.dst
                 state == actor_states[id + 1]
             IN /\ SendsRequestTo(call.out, id, state.op_count)
                /\ history.is_valid_history =>
                     Len(Invoked(history, id)) = state.op_count

C26_Witness ==
    /\ RegisterSystem
    /\ server_count = 2
    /\ DeliveredToClient
    /\ actor_states[call.action.dst + 1].op_count = 1
    /\ call.out = <<Send(1, Put(4, CodeOfZ))>>

\* The history after it took in the delivery of msg to dst, if dst is a client.
ClientReturn(h, dst, msg) ==
    IF dst \notin ClientIds THEN h
    ELSE IF msg.kind = "GetOk" THEN on_return(h, dst, "ReadOk", msg.value)
    ELSE IF msg.kind = "PutOk" THEN on_return(h, dst, "WriteOk", DefaultValue)
    ELSE h

\* The history after it took in the commands of src in order, if src is a client.
RECURSIVE ClientInvokes(_, _, _)
ClientInvokes(h, src, out) ==
    IF out = <<>> THEN h
    ELSE LET c == Head(out)
             next == IF src \notin ClientIds \/ c.type # "Send" THEN h
                     ELSE IF c.msg.kind = "Get" THEN on_invoke(h, src, "Read", DefaultValue)
                     ELSE IF c.msg.kind = "Put" THEN on_invoke(h, src, "Write", c.msg.value)
                     ELSE h
         IN ClientInvokes(next, src, Tail(out))

RECURSIVE StartInvokes(_, _, _)
StartInvokes(h, index, starts) ==
    IF index >= Len(starts) THEN h
    ELSE StartInvokes(ClientInvokes(h, index, starts[index + 1].out), index + 1, starts)

\* C27: the history of the register harness records the operations of the
\* clients and nothing else: a Get or Put a client sends is an invocation by
\* that client, a GetOk or PutOk delivered to a client is a return to that
\* client, and no other send or delivery changes the history.
C27_HistoryRecordsClientOperationsOnly ==
    RegisterSystem =>
        /\ (pc = "returned" /\ call.op = "init_states") =>
             \A s \in call.ret : s.history = StartInvokes(DefaultHistory, 0, call.starts)
        /\ NextStateCalled("Deliver") =>
             \A s \in call.ret :
                s.history = ClientInvokes(ClientReturn(history, call.action.dst, call.action.msg),
                                          call.action.dst, call.out)
        /\ (NextStateCalled("Timeout") \/ NextStateCalled("Drop")) =>
             \A s \in call.ret : s.history = history

ServerIds == {id \in 0 .. Len(actors) - 1 : actors[id + 1] \in RegisterServers}

\* The composite result wraps the result r of the wrapped server: the same
\* commands, the state Server(inner state), owned iff the inner one is.
Wraps(composite, state, r) ==
    /\ composite.out = r.out
    /\ composite.state.owned = r.state.owned
    /\ composite.state.value =
         IF r.state.owned THEN ServerState(r.state.value) ELSE state
    /\ is_no_op(composite.state, composite.out) <=> is_no_op(r.state, r.out)

\* The results of the composite are the results of the wrapped server, wrapped.
ForwardsOnMsg(id, state, src, msg) ==
    LET composite == on_msg(actors[id + 1], id, state, src, msg)
        wrapped == server_on_msg(actors[id + 1], id, state.state, src, msg)
    IN /\ \A c \in composite : \E r \in wrapped : Wraps(c, state, r)
       /\ \A r \in wrapped : \E c \in composite : Wraps(c, state, r)

ForwardsOnStart(id) ==
    LET composite == on_start(actors[id + 1], id)
        wrapped == server_on_start(actors[id + 1], id)
    IN /\ \A c \in composite :
            \E r \in wrapped : c.out = r.out /\ c.state = ServerState(r.state)
       /\ \A r \in wrapped :
            \E c \in composite : c.out = r.out /\ c.state = ServerState(r.state)

\* An actor given the state of the other variant does nothing.
MismatchDoesNothing(id, state, src, msg) ==
    \A actor \in RegisterActors :
        (actor = "Client") # (state.variant = "Client") =>
            on_msg(actor, id, state, src, msg) = {[state |-> Borrowed(state), out |-> <<>>]}

\* C28: for a Server variant, on_start and on_msg give the commands of the
\* wrapped server, in its order, called with the same id, src and msg; the
\* state is Server(inner state), owned iff the wrapped server promoted its
\* state, so the composite is a no-op iff the wrapped transition is.  An
\* actor whose variant is not that of the state does nothing.
C28_ServerForwardedVerbatim ==
    RegisterSystem =>
        /\ (pc = "returned" /\ call.op = "init_states") =>
             \A id \in ServerIds :
                /\ ForwardsOnStart(id)
                /\ \E r \in server_on_start(actors[id + 1], id) :
                     /\ call.starts[id + 1].out = r.out
                     /\ call.starts[id + 1].state = ServerState(r.state)
        /\ (NextStateCalled("Deliver") /\ call.action.dst \in ServerIds) =>
             LET id == call.action.dst
                 state == actor_states[id + 1]
             IN /\ ForwardsOnMsg(id, state, call.action.src, call.action.msg)
                /\ \E r \in server_on_msg(actors[id + 1], id, state.state,
                                           call.action.src, call.action.msg) :
                     Wraps([state |-> call.state, out |-> call.out], state, r)
                /\ (call.ret = {}) <=> is_no_op(call.state, call.out)
        /\ pc = "explore" =>
             \A id \in 0 .. Len(actors) - 1, src \in 0 .. Len(actors) - 1, msg \in RegisterMsgs :
                MismatchDoesNothing(id, actor_states[id + 1], src, msg)

C28_Witness ==
    /\ RegisterSystem
    /\ NextStateCalled("Deliver")
    /\ call.action.dst \in ServerIds
    /\ actors[call.action.dst + 1] = "AnyServer"
    /\ call.action.msg.kind = "Put"
    /\ call.out = <<SetTimer, Send(call.action.src, PutOk(call.action.msg.request_id))>>
    /\ ~call.state.owned
    /\ call.ret # {}

-----------------------------------------------------------------------------
(* Linearizability of the recorded history as a register.                  *)

Operations(h) == {i \in 1 .. Len(h.events) : h.events[i].type = "invoke"}

\* The position of the return of the operation invoked at i; 0 while in flight.
ReturnOf(h, i) ==
    LET later == {j \in i + 1 .. Len(h.events) :
                    h.events[j].thread_id = h.events[i].thread_id}
    IN IF later = {} THEN 0 ELSE CHOOSE j \in later : \A k \in later : j <= k

\* p returned before o was invoked.
Precedes(h, p, o) == ReturnOf(h, p) # 0 /\ ReturnOf(h, p) < o

\* Register::is_valid_step: the operation invoked at o, with the return
\* recorded for it if any, is one a register holding value can take.
IsValidStep(h, o, value) ==
    LET ret == ReturnOf(h, o)
    IN IF h.events[o].op = "Write"
       THEN ret = 0 \/ h.events[ret].op = "WriteOk"
       ELSE ret = 0 \/ (h.events[ret].op = "ReadOk" /\ h.events[ret].value = value)

RECURSIVE Serializable(_, _, _)
Serializable(h, done, value) ==
    IF \A i \in Operations(h) : ReturnOf(h, i) # 0 => i \in done THEN TRUE
    ELSE \E o \in Operations(h) \ done :
            /\ \A p \in Operations(h) : Precedes(h, p, o) => p \in done
            /\ IsValidStep(h, o, value)
            /\ Serializable(h, done \cup {o},
                            IF h.events[o].op = "Write" THEN h.events[o].value ELSE value)

\* serialized_history().is_some()
Linearizable(state) ==
    /\ state.history.is_valid_history
    /\ Serializable(state.history, {}, DefaultValue)

\* The condition of the property "value chosen".
ValueChosen(state) ==
    \E env \in state.network : env.msg.kind = "GetOk" /\ env.msg.value # DefaultValue

OneServerTwoClients == actors = <<"SingleCopyServer", "Client", "Client">>

\* C29 as stated: with 1 single-copy server and 2 clients on the default
\* network (lossless, duplicating), the history of every snapshot is
\* linearizable.
C29_DefaultSystemLinearizable ==
    (RegisterSystem /\ OneServerTwoClients /\ ~lossy_network /\ duplicating_network) =>
        /\ pc = "explore" => Linearizable(Snapshot)
        /\ pc # "panicked"

\* C29: with 1 single-copy server and 2 clients on a lossless network that
\* does not duplicate, the history of every snapshot is linearizable, and a
\* snapshot is reached with a GetOk of a value other than the default in
\* the network.
C29_LinearizableWithoutDuplication ==
    (RegisterSystem /\ OneServerTwoClients /\ ~lossy_network /\ ~duplicating_network) =>
        /\ pc = "explore" => Linearizable(Snapshot)
        /\ (pc = "returned" /\ call.op = "init_states") =>
             \A s \in call.ret : Linearizable(s) /\ ~ValueChosen(s)
        /\ pc # "panicked"

C29_Witness ==
    /\ RegisterSystem
    /\ OneServerTwoClients
    /\ ~lossy_network
    /\ ~duplicating_network
    /\ pc = "explore"
    /\ ValueChosen(Snapshot)
    /\ Linearizable(Snapshot)
    /\ Len(history.events) >= 8

(***************************************************************************)
(* Determinism of the transition relation.  An actor is a function of its  *)
(* arguments; the actors "Any" and "AnyServer" stand for every such        *)
(* function, every other actor of the model is one function.               *)
(***************************************************************************)
DeterministicActors ==
    \A i \in 1 .. Len(actors) : actors[i] \notin {"Any", "AnyServer"}

\* What the actor returned to the call in progress.
Handled == [state |-> call.state, out |-> call.out]

\* A second evaluation of the call in progress, on the same snapshot, with
\* the same action and the same result of the actor.
SecondEvaluation ==
    IF call.op = "init_states" THEN init_states(call.starts)
    ELSE IF call.action.type = "Drop"
    THEN next_state_drop(Snapshot, EnvelopeOf(call.action))
    ELSE IF call.action.type = "Deliver"
    THEN next_state_deliver(Snapshot, call.action.src, call.action.dst,
                            call.action.msg, Handled)
    ELSE next_state_timeout(Snapshot, call.action.dst, Handled)

\* actions() reads the network and the timers of the snapshot only.
ActionsOfNetworkAndTimers ==
    actions(Snapshot) = actions(SystemState(<<>>, network, is_timer_set, DefaultHistory))

EventsOf(h, thread_id) ==
    LET OfThread(e) == e.thread_id = thread_id
    IN SelectSeq(h.events, OfThread)

\* on_invoke, on_return, on_invoke, ..., starting with on_invoke.
Alternates(events) ==
    \A i \in 1 .. Len(events) :
        events[i].type = IF i % 2 = 1 THEN "invoke" ELSE "return"

\* The requests a client has sent: op_count counts them, and the GetOk that
\* ends the sequence once more.
RequestsIssued(state) ==
    IF state.awaiting = {} THEN state.op_count - 1 ELSE state.op_count

\* The history of a snapshot agrees with its clients: a client has as many
\* invocations as requests and an operation in flight exactly while it
\* awaits a reply.
ClientEventsRecorded(s) ==
    \A id \in ClientIds :
        LET events == EventsOf(s.history, id)
            client == s.actor_states[id + 1]
        IN /\ Alternates(events)
           /\ Len(Invoked(s.history, id)) <= RequestsIssued(client)
           /\ s.history.is_valid_history =>
                /\ Len(Invoked(s.history, id)) = RequestsIssued(client)
                /\ InFlight(s.history, id) <=> client.awaiting # {}

\* C31: in the register harness, on every network, the events of each client
\* alternate on_invoke, on_return, on_invoke, ..., starting with on_invoke:
\* a request is recorded only after the return of the previous one, a
\* return only for an operation in flight, and a reply delivered again
\* records nothing.  With servers that answer only, the history stays valid.
C31_ClientEventsAlternate ==
    RegisterSystem =>
        /\ (pc \in {"returned", "explore"} /\ call.op # "none") =>
             \A s \in call.ret : /\ ClientEventsRecorded(s)
                                 /\ SingleCopyServers => s.history.is_valid_history
        /\ pc = "explore" => ClientEventsRecorded(Snapshot)
        /\ (DeliveredToClient /\ pc = "returned"
              /\ ~matches_awaiting(actor_states[call.action.dst + 1], call.action.msg,
                                   call.action.msg.kind)) =>
             call.ret = {}

C31_Witness ==
    /\ RegisterSystem
    /\ duplicating_network
    /\ pc = "explore"
    /\ history.is_valid_history
    /\ \E id \in ClientIds :
         /\ Len(EventsOf(history, id)) = 6
         /\ Alternates(EventsOf(history, id))
         /\ \E env \in network : env.dst = id /\ env.msg.kind = "PutOk"

\* The requests of clients in the network of a snapshot.
Requests(s) ==
    {env \in s.network : env.src \in ClientIds /\ env.msg.kind \in {"Put", "Get"}}

C33_OpCountCountsRequests ==
    (RegisterSystem /\ SingleCopyServers) =>
        /\ pc = "explore" =>
             \A id \in ClientIds :
                 actor_states[id + 1].op_count = Len(Invoked(history, id))
        /\ (DeliveredToClient /\ pc = "returned"
              /\ matches_awaiting(actor_states[call.action.dst + 1], call.action.msg, "GetOk")) =>
             \A s \in call.ret :
                 s.actor_states[call.action.dst + 1].op_count =
                     actor_states[call.action.dst + 1].op_count

(***************************************************************************)
(* The envelopes a transition inserts.                                     *)
(***************************************************************************)
\* The envelopes of the Send commands of actor id: Envelope { src: id, dst, msg }.
SentBy(id, out) ==
    {Envelope(id, out[k].dst, out[k].msg) : k \in {j \in 1 .. Len(out) : out[j].type = "Send"}}

\* The envelopes of the commands every actor gave on start.
SentOnStart(starts) ==
    UNION {SentBy(index - 1, starts[index].out) : index \in 1 .. Len(starts)}

\* C34: the envelopes a transition inserts into the network are those of its
\* Send commands, with src the id of the actor that ran (on_start of actor i,
\* Deliver to actor i, Timeout(i)) and dst and msg as given in the command;
\* a Drop inserts none.
C34_SenderIsActingActor ==
    /\ (pc = "returned" /\ call.op = "init_states") =>
         \A s \in call.ret :
            s.network = Range(init_network) \cup SentOnStart(call.starts)
    /\ (pc = "returned" /\ call.op = "next_state") =>
         \A s \in call.ret :
            IF call.action.type = "Drop" THEN s.network \ network = {}
            ELSE /\ s.network \ network = SentBy(call.action.dst, call.out) \ network
                 /\ SentBy(call.action.dst, call.out) \subseteq s.network
                 /\ \A env \in s.network \ network : env.src = call.action.dst

C34_Witness ==
    /\ NextStateCalled("Deliver")
    /\ pc = "returned"
    /\ \E s \in call.ret : \E env \in s.network \ network :
          /\ env.src = call.action.dst
          /\ env.dst # call.action.src
          /\ env.dst # call.action.dst
          /\ env.msg # call.action.msg

\* C35: a Deliver to actor i or a Timeout(i) that yields a successor leaves
\* actor_states[j] and the timer flag of actor j (an absent entry reads
\* false) unchanged for every j # i, and replaces actor_states[i] only if the
\* actor promoted its state to owned, then by the owned state.
C35_TransitionAffectsOwnSlots ==
    (pc = "returned" /\ (NextStateCalled("Deliver") \/ NextStateCalled("Timeout"))) =>
        \A s \in call.ret :
            /\ Len(s.actor_states) = Len(actor_states)
            /\ \A j \in 0 .. Len(actors) - 1 :
                 j # call.action.dst =>
                    /\ s.actor_states[j + 1] = actor_states[j + 1]
                    /\ TimerOf(s, j) = TimerOf(Snapshot, j)
            /\ s.actor_states[call.action.dst + 1] =
                 IF call.state.owned THEN call.state.value
                 ELSE actor_states[call.action.dst + 1]

C35_Witness ==
    /\ NextStateCalled("Deliver")
    /\ pc = "returned"
    /\ call.action.dst >= 1
    /\ Len(is_timer_set) <= call.action.dst
    /\ SetTimer \in Range(call.out)
    /\ call.state.owned
    /\ \E s \in call.ret :
          /\ s.actor_states[call.action.dst + 1] # actor_states[call.action.dst + 1]
          /\ Len(s.is_timer_set) > Len(is_timer_set)
          /\ TimerOf(s, call.action.dst)
          /\ ~TimerOf(s, 0)

\* The envelopes the action of the call in progress may remove: the one a
\* Drop names, and the delivered one on a network that does not duplicate.
Removable ==
    IF call.action.type = "Drop" THEN {EnvelopeOf(call.action)}
    ELSE IF call.action.type = "Deliver" /\ ~duplicating_network
    THEN {EnvelopeOf(call.action)}
    ELSE {}

\* C36: on a lossless, duplicating network every envelope of a snapshot is
\* in the network of every successor, and can be delivered again there; on
\* any network an envelope is removed only by its Drop, which only a lossy
\* network has, or by its Deliver on a non-duplicating network when the
\* delivery is not a no-op.
C36_NetworkOnlyGrows ==
    (pc = "returned" /\ call.op = "next_state") =>
        \A s \in call.ret :
            /\ (~lossy_network /\ duplicating_network) =>
                 /\ network \subseteq s.network
                 /\ \A env \in network :
                      env.dst < ActorCount =>
                          Deliver(env.src, env.dst, env.msg) \in Range(actions(s))
            /\ network \ s.network \subseteq Removable
            /\ call.action.type = "Drop" => lossy_network
            /\ (call.action.type = "Deliver" /\ network \ s.network # {}) =>
                 ~is_no_op(call.state, call.out)

C36_Witness ==
    /\ ~lossy_network
    /\ duplicating_network
    /\ NextStateCalled("Deliver")
    /\ pc = "returned"
    /\ Cardinality(network) >= 2
    /\ \E s \in call.ret :
          /\ EnvelopeOf(call.action) \in s.network
          /\ network \subseteq s.network
          /\ s.network # network
          /\ Deliver(call.action.src, call.action.dst, call.action.msg)
                \in Range(actions(s))

=============================================================================
